---- MODULE Spec2Model ----
(***************************************************************************)
(* A model of mimium's type representation (src/basic/type.hpp): the type  *)
(* universe types::Value, the inference placeholder TypeVar with its       *)
(* prev/next chain, the visitors ToStringVisitor and KindVisitor, and the  *)
(* per-compilation registry TypeEnv.                                       *)
(***************************************************************************)
EXTENDS Integers, Sequences, FiniteSets

(***************************************************************************)
(* Bounds of the model.                                                    *)
(***************************************************************************)
\* createNewTypeVar calls explored
MaxTypeVars == 2
\* prev/next fields holding a link at the same time
MaxLinks == 4

(***************************************************************************)
(* types::Value: a tagged union.  A value is a record with a tag and the   *)
(* payload of its variant.                                                 *)
(***************************************************************************)
None == [tag |-> "None"]
Void == [tag |-> "Void"]
Float == [tag |-> "Float"]
String == [tag |-> "String"]
Ref(v) == [tag |-> "Ref", val |-> v]
Pointer(v) == [tag |-> "Pointer", val |-> v]
Function(ret_type_p, arg_types_p) ==
  [tag |-> "Function", ret_type |-> ret_type_p, arg_types |-> arg_types_p]
Closure(fun, captures) == [tag |-> "Closure", fun |-> fun, captures |-> captures]
Array(elem, size) == [tag |-> "Array", elem_type |-> elem, size |-> size]
Tuple(types) == [tag |-> "Tuple", arg_types |-> types]
Keytype(field, val) == [field |-> field, val |-> val]
Struct(types) == [tag |-> "Struct", arg_types |-> types]
Alias(name, target) == [tag |-> "Alias", name |-> name, target |-> target]

\* std::optional<std::shared_ptr<TypeVar>>: the empty set is std::nullopt, a
\* singleton holds the address of the node pointed to.
nullopt == {}
has_value(o) == o # {}
value(o) == CHOOSE a \in o : TRUE

\* A TypeVar object as constructed by TypeVar(int i).
TypeVar(i) == [index |-> i, contained |-> None, prev |-> nullopt, next |-> nullopt]

\* Rec_Wrap<TypeVar>{t}: the box is built from the TypeVar object t itself
\* (an lvalue, *res), so it owns a TypeVar of its own holding t's fields at
\* the time of the call; the variant alternative rTypeVar carries that object.
Rec_Wrap(t) ==
  [tag |-> "TypeVar", index |-> t.index, contained |-> t.contained,
   prev |-> t.prev, next |-> t.next]

(***************************************************************************)
(* State.                                                                  *)
(***************************************************************************)
VARIABLES
  typeid_count,   \* TypeEnv::typeid_count
  env,            \* TypeEnv::env, the set of (key, value) entries of the map
  tv_container,   \* TypeEnv::tv_container, position i+1 holds element i
  heap,           \* the TypeVar objects owned by shared_ptr, by address
  call,           \* the last operation called, its arguments and its outcome
  walk,           \* TypeVar::getLink in progress: its frame
  input,          \* the value handed to toString / kindOf
  output          \* what toString / kindOf returned for it

vars == <<typeid_count, env, tv_container, heap, call, walk, input, output>>

NoCall == [op |-> "none"]
NoWalk == [pc |-> "idle"]
NoInput == [tag |-> "unset"]
NoOutput == [kind |-> "unset"]

\* The addresses of the TypeVar objects allocated so far: make_shared hands
\* out address a for the a-th allocation, counting from 1.
Handles == DOMAIN heap

\* TypeEnv() : env(), typeid_count{} and an empty deque.
TypeEnvInit ==
  /\ typeid_count = 0
  /\ env = {}
  /\ tv_container = <<>>
  /\ heap = <<>>


(***************************************************************************)
(* TypeEnv: the name bindings.                                             *)
(***************************************************************************)
\* Inputs of the environment operations.
Keys == {"x", "y"}
EnvValues == {Float, String, Ref(Float)} \cup {Rec_Wrap(TypeVar(0))}

\* std::unordered_map::count
count(m, key) == Cardinality({e \in m : e.key = key})

\* std::unordered_map::find: an iterator is the set of entries it may point
\* to, the empty set being end().
map_find(m, key) == {e \in m : e.key = key}

\* bool exist(std::string key)
exist(key) == count(env, key) > 0

\* types::Value* tryFind(std::string key)
nullptr == [kind |-> "nullptr"]
tryFind(key) ==
  LET it == map_find(env, key)
  IN  IF it = {} THEN {nullptr}
      ELSE {[kind |-> "pointer", key |-> e.key, pointee |-> e.val] : e \in it}

\* types::Value& find(std::string key)
logic_error(what) == [kind |-> "throw", type |-> "std::logic_error", what |-> what]
\* find as it would be with a message that does not name the key.
findAnonymous(key) ==
  {IF res = nullptr
     THEN logic_error("Could not find type for variable")
     ELSE [res EXCEPT !.kind = "reference"] : res \in tryFind(key)}

find(key) ==
  {IF res = nullptr
     THEN logic_error("Could not find type for variable \"" \o key \o "\"")
     ELSE [res EXCEPT !.kind = "reference"] : res \in tryFind(key)}

\* std::unordered_map::insert, which keeps an existing entry.
map_insert(m, key, val) ==
  IF count(m, key) > 0 THEN m ELSE m \cup {[key |-> key, val |-> val]}

\* std::unordered_map::insert_or_assign
insert_or_assign(m, key, val) ==
  {e \in m : e.key # key} \cup {[key |-> key, val |-> val]}

\* The operations as steps of the environment's user.
Exist(key) ==
  /\ call' = [op |-> "exist", key |-> key,
              ret |-> [kind |-> "bool", val |-> exist(key)]]
  /\ UNCHANGED <<typeid_count, env, tv_container, heap, walk, input, output>>

TryFind(key) ==
  /\ \E r \in tryFind(key) : call' = [op |-> "tryFind", key |-> key, ret |-> r]
  /\ UNCHANGED <<typeid_count, env, tv_container, heap, walk, input, output>>

Find(key) ==
  /\ \E r \in find(key) : call' = [op |-> "find", key |-> key, ret |-> r]
  /\ UNCHANGED <<typeid_count, env, tv_container, heap, walk, input, output>>

\* auto emplace(std::string key, types::Value typevar)
Emplace(key, typevar) ==
  /\ env' = insert_or_assign(env, key, typevar)
  /\ call' = [op |-> "emplace", key |-> key, val |-> typevar,
              ret |-> [kind |-> "pair", key |-> key, inserted |-> ~exist(key)]]
  /\ UNCHANGED <<typeid_count, tv_container, heap, walk, input, output>>


(***************************************************************************)
(* Kind and KindVisitor.                                                   *)
(***************************************************************************)
Kind == {"VOID", "PRIMITIVE", "POINTER", "AGGREGATE", "INTERMEDIATE"}

\* The base struct each alternative of Value derives its static member kind
\* from (TypeVar declares its own).
BaseOf(tag) ==
  CASE tag \in {"None", "Void", "Float", "String"} -> "PrimitiveType"
    [] tag \in {"Ref", "Pointer"} -> "PointerBase"
    [] tag \in {"Function", "Closure", "Array", "Tuple", "Struct", "Alias"} -> "Aggregate"
    [] tag = "TypeVar" -> "TypeVar"

\* constexpr inline static Kind kind of each of them.
StaticKind(base) ==
  CASE base = "PrimitiveType" -> "PRIMITIVE"
    [] base = "PointerBase" -> "POINTER"
    [] base = "Aggregate" -> "AGGREGATE"
    [] base = "TypeVar" -> "INTERMEDIATE"

\* The visitor as it would be if it looked through a pointer-like wrapper
\* at the kind of what it wraps.
RECURSIVE KindVisitorThrough(_)
KindVisitorThrough(t) ==
  IF t.tag \in {"Ref", "Pointer"} THEN KindVisitorThrough(t.val)
  ELSE StaticKind(BaseOf(t.tag))

\* KindVisitor::operator(): T::kind of the active alternative, whether held
\* directly or in a Rec_Wrap.
KindVisitor(t) == StaticKind(BaseOf(t.tag))

\* Kind kindOf(const Value& v): visits v with kindvisitor.
kindOf(v) == KindVisitor(v)

(***************************************************************************)
(* ToStringVisitor.                                                        *)
(***************************************************************************)
Digit(d) ==
  CASE d = 0 -> "0" [] d = 1 -> "1" [] d = 2 -> "2" [] d = 3 -> "3" [] d = 4 -> "4"
    [] d = 5 -> "5" [] d = 6 -> "6" [] d = 7 -> "7" [] d = 8 -> "8" [] d = 9 -> "9"

RECURSIVE Decimal(_)
Decimal(n) == IF n < 10 THEN Digit(n) ELSE Decimal(n \div 10) \o Digit(n % 10)

\* std::to_string(int)
to_string(n) == IF n < 0 THEN "-" \o Decimal(-n) ELSE Decimal(n)

\* std::string::substr(pos, len)
substr(str, pos, len) == SubSeq(str, pos + 1, pos + len)

RECURSIVE ToStringVisitor(_, _)
RECURSIVE accumulate(_, _, _, _)
RECURSIVE StructFields(_, _, _)

\* std::accumulate over vec[first+1 ..] with the lambda of join:
\* a + delim + std::visit(*this, b)
accumulate(verbose, vec, init, delim) ==
  IF vec = <<>> THEN init
  ELSE accumulate(verbose, Tail(vec),
                  init \o delim \o ToStringVisitor(verbose, Head(vec)), delim)

\* std::string join(const std::vector<types::Value>& vec, std::string delim)
join(verbose, vec, delim) ==
  IF vec # <<>>
    THEN accumulate(verbose, Tail(vec), ToStringVisitor(verbose, Head(vec)), delim)
    ELSE ""

\* The loop of operator()(const Struct&):
\* str += arg.field + ":" + std::visit(*this, arg.val) + ","
StructFields(verbose, args, str) ==
  IF args = <<>> THEN str
  ELSE StructFields(verbose, Tail(args),
         str \o Head(args).field \o ":" \o ToStringVisitor(verbose, Head(args).val) \o ",")

\* std::string operator()(...) of each alternative
ToStringVisitor(verbose, v) ==
  CASE v.tag = "None" -> "none"
    [] v.tag = "TypeVar" -> "TypeVar" \o to_string(v.index)
    [] v.tag = "Void" -> "void"
    [] v.tag = "Float" -> "float"
    [] v.tag = "String" -> "string"
    [] v.tag = "Ref" -> ToStringVisitor(verbose, v.val) \o "&"
    [] v.tag = "Pointer" -> ToStringVisitor(verbose, v.val) \o "*"
    [] v.tag = "Function" ->
         "(" \o join(verbose, v.arg_types, ",") \o ") -> "
             \o ToStringVisitor(verbose, v.ret_type)
    [] v.tag = "Closure" ->
         "cls{ " \o ToStringVisitor(verbose, v.fun) \o " , "
                \o ToStringVisitor(verbose, v.captures) \o " }"
    [] v.tag = "Array" ->
         "[" \o ToStringVisitor(verbose, v.elem_type) \o "x" \o to_string(v.size) \o "]"
    [] v.tag = "Struct" ->
         LET str == StructFields(verbose, v.arg_types, "{")
         IN  substr(str, 0, Len(str) - 1) \o "}"
    [] v.tag = "Tuple" -> "(" \o join(verbose, v.arg_types, ",") \o ")"
    [] v.tag = "Alias" ->
         v.name \o (IF verbose THEN ": " \o ToStringVisitor(verbose, v.target) ELSE "")

\* std::string toString(const Value& v, bool verbose): visits v with
\* tostrvisitor, its verbose flag set.
toString(v, verbose) == ToStringVisitor(verbose, v)

(***************************************************************************)
(* TypeEnv: the type variables.                                            *)
(***************************************************************************)
\* What a read past the ends of the deque may find in memory.
GarbageValues == {None, Float, Rec_Wrap(TypeVar(0))}

\* std::deque::operator[]: element n when 0 <= n < size(); the behaviour is
\* undefined otherwise (no bounds check): the read yields whatever lies at
\* the computed address, or the process is killed.
deque_at(d, n) ==
  IF 0 <= n /\ n < Len(d)
    THEN {[kind |-> "reference", slot |-> n, pointee |-> d[n + 1]]}
    ELSE {[kind |-> "reference", slot |-> n, pointee |-> g] : g \in GarbageValues}
           \cup {[kind |-> "crash"]}

\* types::Value& findTypeVar(int tindex)
findTypeVar(tindex) == deque_at(tv_container, tindex)

\* createNewTypeVar as it would be with ++typeid_count.
CreateNewTypeVarPreIncrement ==
  /\ typeid_count < MaxTypeVars
  /\ LET res == TypeVar(typeid_count + 1)
         boxed == Rec_Wrap(res)
     IN  /\ heap' = Append(heap, res)
         /\ typeid_count' = typeid_count + 1
         /\ tv_container' = Append(tv_container, boxed)
         /\ call' = [op |-> "createNewTypeVar",
                     ret |-> [kind |-> "shared_ptr", addr |-> Len(heap) + 1]]
  /\ UNCHANGED <<env, walk, input, output>>

\* std::shared_ptr<types::TypeVar> createNewTypeVar()
CreateNewTypeVar ==
  /\ typeid_count < MaxTypeVars
  /\ LET res == TypeVar(typeid_count)
         boxed == Rec_Wrap(res)
     IN  /\ heap' = Append(heap, res)
         /\ typeid_count' = typeid_count + 1
         /\ tv_container' = Append(tv_container, boxed)
         /\ call' = [op |-> "createNewTypeVar",
                     ret |-> [kind |-> "shared_ptr", addr |-> Len(heap) + 1]]
  /\ UNCHANGED <<env, walk, input, output>>

FindTypeVar(tindex) ==
  /\ \E r \in findTypeVar(tindex) :
       call' = [op |-> "findTypeVar", tindex |-> tindex, ret |-> r]
  /\ UNCHANGED <<typeid_count, env, tv_container, heap, walk, input, output>>

\* The indices the model hands to findTypeVar: allocated ones and ones on
\* either side of the store.
Indices == -1 .. MaxTypeVars

(***************************************************************************)
(* TypeVar: its fields and the walk along the chain.  The fields are       *)
(* public; the unification pass assigns them through the shared_ptr that   *)
(* createNewTypeVar returned.                                              *)
(***************************************************************************)
\* The values the model assigns to contained.
ContainedValues == {None, Float, String}

\* The number of prev/next fields that hold a link.
NumLinks(hp) ==
  Cardinality({a \in DOMAIN hp : has_value(hp[a].prev)})
    + Cardinality({a \in DOMAIN hp : has_value(hp[a].next)})

\* h->contained = v
AssignContained(h, v) ==
  /\ walk = NoWalk
  /\ heap' = [heap EXCEPT ![h].contained = v]
  /\ call' = [op |-> "contained="]
  /\ UNCHANGED <<typeid_count, env, tv_container, walk, input, output>>

\* h->prev = o, o being std::nullopt or a shared_ptr to a TypeVar
AssignPrev(h, o) ==
  /\ walk = NoWalk
  /\ heap' = [heap EXCEPT ![h].prev = o]
  /\ NumLinks(heap') <= MaxLinks
  /\ call' = [op |-> "prev="]
  /\ UNCHANGED <<typeid_count, env, tv_container, walk, input, output>>

\* h->next = o
AssignNext(h, o) ==
  /\ walk = NoWalk
  /\ heap' = [heap EXCEPT ![h].next = o]
  /\ NumLinks(heap') <= MaxLinks
  /\ call' = [op |-> "next="]
  /\ UNCHANGED <<typeid_count, env, tv_container, walk, input, output>>

\* The optional links a field can be assigned: none, or any live TypeVar.
Links == {nullopt} \cup {{a} : a \in Handles}

\* The field getLink<IS_PREV> follows.
LinkOf(IS_PREV, t) == IF IS_PREV THEN t.prev ELSE t.next

\* getFirstLink() is getLink<true>(), getLastLink() is getLink<false>().
GetLinkName(IS_PREV) == IF IS_PREV THEN "getFirstLink" ELSE "getLastLink"

\* getLink<IS_PREV>() on the TypeVar at h: tmp = shared_from_this()
GetLinkCall(IS_PREV, h) ==
  /\ walk = NoWalk
  /\ walk' = [pc |-> "while", IS_PREV |-> IS_PREV, tmp |-> {h}]
  /\ call' = [op |-> GetLinkName(IS_PREV), self |-> h, ret |-> [kind |-> "pending"]]
  /\ UNCHANGED <<typeid_count, env, tv_container, heap, input, output>>

\* while (tmp.value()->prev.has_value()) tmp = tmp.value()->prev;  (or next)
GetLinkLoop ==
  /\ walk.pc = "while"
  /\ has_value(LinkOf(walk.IS_PREV, heap[value(walk.tmp)]))
  /\ walk' = [walk EXCEPT !.tmp = LinkOf(walk.IS_PREV, heap[value(walk.tmp)])]
  /\ UNCHANGED <<typeid_count, env, tv_container, heap, call, input, output>>

\* The loop as it would be if it looked one node ahead.
GetLinkReturnEarly ==
  /\ walk.pc = "while"
  /\ LET t == heap[value(walk.tmp)]
     IN  \/ ~has_value(LinkOf(walk.IS_PREV, t))
         \/ /\ has_value(LinkOf(walk.IS_PREV, t))
            /\ ~has_value(LinkOf(walk.IS_PREV, heap[value(LinkOf(walk.IS_PREV, t))]))
  /\ walk' = NoWalk
  /\ call' = [call EXCEPT !.ret = [kind |-> "shared_ptr", addr |-> value(walk.tmp)]]
  /\ UNCHANGED <<typeid_count, env, tv_container, heap, input, output>>

\* The return as it would be if it handed back the node the walk began at.
GetLinkReturnSelf ==
  /\ walk.pc = "while"
  /\ ~has_value(LinkOf(walk.IS_PREV, heap[value(walk.tmp)]))
  /\ walk' = NoWalk
  /\ call' = [call EXCEPT !.ret = [kind |-> "shared_ptr", addr |-> call.self]]
  /\ UNCHANGED <<typeid_count, env, tv_container, heap, input, output>>

\* return tmp.value();  once the loop's test fails
GetLinkReturn ==
  /\ walk.pc = "while"
  /\ ~has_value(LinkOf(walk.IS_PREV, heap[value(walk.tmp)]))
  /\ walk' = NoWalk
  /\ call' = [call EXCEPT !.ret = [kind |-> "shared_ptr", addr |-> value(walk.tmp)]]
  /\ UNCHANGED <<typeid_count, env, tv_container, heap, input, output>>

(***************************************************************************)
(* The environment and its user.                                           *)
(***************************************************************************)
Init ==
  /\ TypeEnvInit
  /\ call = NoCall
  /\ walk = NoWalk
  /\ input = NoInput
  /\ output = NoOutput

Next ==
  \/ CreateNewTypeVar
  \/ \E tindex \in Indices : FindTypeVar(tindex)
  \/ \E key \in Keys : Exist(key)
  \/ \E key \in Keys : TryFind(key)
  \/ \E key \in Keys : Find(key)
  \/ \E key \in Keys, typevar \in EnvValues : Emplace(key, typevar)

Spec == Init /\ [][Next]_vars

(***************************************************************************)
(* The unification pass at work on the chain: it creates variables, links  *)
(* them and asks for the ends of the chain.  The code is single-threaded,  *)
(* so a walk that was started runs on until it returns.                    *)
(***************************************************************************)
NextChain ==
  \/ walk = NoWalk /\ CreateNewTypeVar
  \/ \E h \in Handles, o \in Links : AssignPrev(h, o)
  \/ \E h \in Handles, o \in Links : AssignNext(h, o)
  \/ \E IS_PREV \in BOOLEAN, h \in Handles : GetLinkCall(IS_PREV, h)
  \/ GetLinkLoop
  \/ GetLinkReturn

SpecChain ==
  Init /\ [][NextChain]_vars /\ WF_vars(GetLinkLoop) /\ WF_vars(GetLinkReturn)

(***************************************************************************)
(* The unification pass at work on the variables it was handed, looking    *)
(* them up in the store again by index.                                    *)
(***************************************************************************)
NextShare ==
  \/ CreateNewTypeVar
  \/ \E h \in Handles, v \in ContainedValues : AssignContained(h, v)
  \/ \E h \in Handles, o \in Links : AssignPrev(h, o)
  \/ \E h \in Handles, o \in Links : AssignNext(h, o)
  \/ \E h \in Handles : FindTypeVar(heap[h].index)

SpecShare == Init /\ [][NextShare]_vars


(***************************************************************************)
(* The visitors at work on type values.                                    *)
(***************************************************************************)
\* Type values of depth 0, 1 and 2.
TypeVarValues ==
  {Rec_Wrap(TypeVar(0)),
   [tag |-> "TypeVar", index |-> 12, contained |-> Float, prev |-> {1}, next |-> nullopt]}

Ground == {None, Void, Float, String}

Leaves == Ground \cup TypeVarValues

ArgLists == {<<>>, <<Float>>, <<Float, String>>} \cup {<<t, Void>> : t \in TypeVarValues}

FieldLists ==
  {<<>>, <<Keytype("a", Float)>>, <<Keytype("a", Float), Keytype("b", String)>>}
    \cup {<<Keytype("f", t)>> : t \in TypeVarValues}

Shallow ==
  {Ref(t) : t \in Leaves} \cup {Pointer(t) : t \in Leaves}
    \cup {Function(r, a) : r \in {Void, Float}, a \in ArgLists}
    \cup {Array(t, n) : t \in {Float, String}, n \in {0, 3, 10}}
    \cup {Tuple(a) : a \in ArgLists}
    \cup {Struct(f) : f \in FieldLists}
    \cup {Alias("Sample", t) : t \in {Float, Void}}

Nested ==
  {Ref(Function(Float, a)) : a \in ArgLists}
    \cup {Closure(Ref(Function(Float, <<Float>>)), c) :
             c \in {Tuple(<<>>), Tuple(<<Float, String>>), Struct(<<Keytype("a", Float)>>)}}
    \cup {Struct(<<Keytype("p", t), Keytype("q", Float)>>) :
             t \in {Struct(<<>>), Tuple(<<Float>>), Pointer(Float)}}
    \cup {Alias("Sample", t) : t \in {Struct(<<Keytype("a", Float)>>), Ref(Float)}}
    \cup {Tuple(<<t, Float>>) : t \in {Array(Float, 3), Alias("Sample", Float), Tuple(<<>>)}}
    \cup {Function(Function(Float, <<String>>), <<Pointer(Float), Float>>)}

Values == Leaves \cup Shallow \cup Nested

InitVisit ==
  /\ TypeEnvInit
  /\ call = NoCall
  /\ walk = NoWalk
  /\ input \in Values
  /\ output = NoOutput

\* toString(input, verbose)
ToString(verbose) ==
  /\ output' = [kind |-> "std::string", verbose |-> verbose,
                val |-> toString(input, verbose)]
  /\ UNCHANGED <<typeid_count, env, tv_container, heap, call, walk, input>>

NextString == \E verbose \in BOOLEAN : ToString(verbose)

SpecString == InitVisit /\ [][NextString]_vars

\* kindOf(input)
KindOf ==
  /\ output' = [kind |-> "Kind", val |-> kindOf(input)]
  /\ UNCHANGED <<typeid_count, env, tv_container, heap, call, walk, input>>

\* The value is changed below its outermost variant: a nested payload, a
\* TypeVar's contained value or its links are assigned.
AssignPayload ==
  /\ \E v \in Values : v.tag = input.tag /\ v # input /\ input' = v
  /\ UNCHANGED <<typeid_count, env, tv_container, heap, call, walk, output>>

NextKind == KindOf \/ AssignPayload

SpecKind == InitVisit /\ [][NextKind]_vars

(***************************************************************************)
(* Properties of the visitors.                                             *)
(***************************************************************************)
\* The rendering table: each variant's text, sequences joined by ",".
RECURSIVE Rendering(_, _)
RECURSIVE JoinTexts(_, _)
JoinTexts(texts, delim) ==
  IF texts = <<>> THEN ""
  ELSE IF Len(texts) = 1 THEN Head(texts)
  ELSE Head(texts) \o delim \o JoinTexts(Tail(texts), delim)

Rendering(verbose, v) ==
  CASE v.tag = "None" -> "none"
    [] v.tag = "Void" -> "void"
    [] v.tag = "Float" -> "float"
    [] v.tag = "String" -> "string"
    [] v.tag = "TypeVar" -> "TypeVar" \o to_string(v.index)
    [] v.tag = "Ref" -> Rendering(verbose, v.val) \o "&"
    [] v.tag = "Pointer" -> Rendering(verbose, v.val) \o "*"
    [] v.tag = "Function" ->
         "(" \o JoinTexts([i \in DOMAIN v.arg_types |->
                                   Rendering(verbose, v.arg_types[i])], ",")
             \o ") -> " \o Rendering(verbose, v.ret_type)
    [] v.tag = "Tuple" ->
         "(" \o JoinTexts([i \in DOMAIN v.arg_types |->
                                   Rendering(verbose, v.arg_types[i])], ",") \o ")"
    [] v.tag = "Array" ->
         "[" \o Rendering(verbose, v.elem_type) \o "x" \o to_string(v.size) \o "]"
    [] v.tag = "Closure" ->
         "cls{ " \o Rendering(verbose, v.fun) \o " , "
                \o Rendering(verbose, v.captures) \o " }"
    [] v.tag = "Alias" ->
         IF verbose THEN v.name \o ": " \o Rendering(verbose, v.target) ELSE v.name
    [] v.tag = "Struct" ->
         "{" \o JoinTexts([i \in DOMAIN v.arg_types |->
                                   v.arg_types[i].field \o ":"
                                     \o Rendering(verbose, v.arg_types[i].val)], ",")
             \o "}"

\* C9: toString renders every value as the rendering table says, a Struct
\* in both braces whatever its fields.
C9_RendersTable ==
  output.kind = "std::string" => output.val = Rendering(output.verbose, input)

\* The kind the classification table gives each variant.
TableKind(tag) ==
  CASE tag \in {"Ref", "Pointer"} -> "POINTER"
    [] tag \in {"Function", "Closure", "Array", "Tuple", "Struct", "Alias"} -> "AGGREGATE"
    [] tag = "TypeVar" -> "INTERMEDIATE"
    [] tag \in {"None", "Void", "Float", "String"} -> "PRIMITIVE"

\* C10: kindOf returns one of the five kinds, the one the table gives the
\* outermost variant, and the answer stays the value's kind when what lies
\* below the outermost variant is changed.
C10_KindByVariant ==
  output.kind = "Kind" =>
    /\ output.val \in Kind
    /\ output.val = TableKind(input.tag)
    /\ kindOf(input) = output.val

\* C10's case: a pointer to a TypeVar was classified, and then made to
\* point to something else.
C10_Witness ==
  /\ output.kind = "Kind"
  /\ output.val = "POINTER"
  /\ input = Pointer(Float)

(***************************************************************************)
(* Properties of the environment.                                          *)
(***************************************************************************)
\* s contains n as a substring.
Contains(s, n) ==
  \E i \in 1 .. (Len(s) - Len(n) + 1) : SubSeq(s, i, i + Len(n) - 1) = n

\* name n has a binding.
Bound(n) == \E e \in env : e.key = n

\* C1, the step: the k-th createNewTypeVar (k calls before it) returns a node
\* with index k, contained None and no links, appends one entry at position
\* k of the store leaving the earlier ones alone, and findTypeVar(k) right
\* after yields an Intermediate TypeVar value with index k and contained None.
C1_CreateStep ==
  call'.op = "createNewTypeVar" =>
    LET k == Len(heap)
        h == call'.ret.addr
    IN  /\ h \notin DOMAIN heap
        /\ DOMAIN heap' = DOMAIN heap \cup {h}
        /\ heap'[h] = [index |-> k, contained |-> None,
                       prev |-> nullopt, next |-> nullopt]
        /\ \A a \in DOMAIN heap : heap'[a] = heap[a]
        /\ Len(tv_container') = k + 1
        /\ \A i \in 1 .. Len(tv_container) : tv_container'[i] = tv_container[i]
        /\ \A r \in deque_at(tv_container', k) :
             /\ r.kind = "reference"
             /\ r.pointee.tag = "TypeVar"
             /\ kindOf(r.pointee) = "INTERMEDIATE"
             /\ r.pointee.index = k
             /\ r.pointee.contained = None

\* C1, the state: indices are unique and strictly increasing in allocation
\* order, and each variable sits in the store at the position of its index.
C1_IndicesIncrease ==
  /\ \A a, b \in Handles : a < b => heap[a].index < heap[b].index
  /\ \A a \in Handles :
       /\ heap[a].index + 1 \in DOMAIN tv_container
       /\ tv_container[heap[a].index + 1].index = heap[a].index

\* C1: createNewTypeVar allocates index k at its k-th call, unbound and
\* unlinked, at position k of the store, under any interleaving with the
\* other TypeEnv operations.
C1_FreshTypeVar == []C1_IndicesIncrease /\ [][C1_CreateStep]_vars

\* C1's case: the second variable was created and then looked up by index.
C1_Witness ==
  /\ call.op = "findTypeVar"
  /\ call.tindex = 1
  /\ Len(heap) = 2
  /\ call.ret.kind = "reference"
  /\ call.ret.pointee.index = 1

\* C5, the state: exist, tryFind and find answer by whether the name is
\* bound; find's error names the missing key.
C5_LookupResult ==
  /\ call.op = "exist" => (call.ret.val <=> Bound(call.key))
  /\ call.op = "tryFind" =>
       IF Bound(call.key)
         THEN /\ call.ret.kind = "pointer"
              /\ [key |-> call.key, val |-> call.ret.pointee] \in env
         ELSE call.ret = nullptr
  /\ call.op = "find" =>
       IF Bound(call.key)
         THEN /\ call.ret.kind = "reference"
              /\ [key |-> call.key, val |-> call.ret.pointee] \in env
         ELSE /\ call.ret.kind = "throw"
              /\ call.ret.type = "std::logic_error"
              /\ Contains(call.ret.what, call.key)

\* C5, the step: the three lookups leave bindings, store and counter alone.
C5_LookupFrame ==
  call'.op \in {"exist", "tryFind", "find"} =>
    UNCHANGED <<env, tv_container, typeid_count, heap>>

\* C5: exist/tryFind/find agree with the bindings and change nothing.
C5_Lookup == []C5_LookupResult /\ [][C5_LookupFrame]_vars

\* C5's case: find failed on an unbound name while another name is bound.
C5_Witness ==
  /\ call.op = "find"
  /\ ~Bound(call.key)
  /\ call.ret.kind = "throw"
  /\ env # {}

\* C6, the step: emplace(n, v) leaves exactly one binding of n, holding v,
\* which find(n) then returns; the other names, the store and the counter
\* are unchanged; no other operation changes a binding.
C6_EmplaceStep ==
  /\ call'.op = "emplace" =>
       /\ {e \in env' : e.key = call'.key} = {[key |-> call'.key, val |-> call'.val]}
       /\ {e \in env' : e.key # call'.key} = {e \in env : e.key # call'.key}
       /\ UNCHANGED <<tv_container, typeid_count, heap>>
  /\ call'.op # "emplace" => env' = env

\* C6, the state: each name has at most one binding, and right after
\* emplace(n, v) find(n) returns v.
C6_OneBinding ==
  /\ \A n \in Keys : count(env, n) <= 1
  /\ call.op = "emplace" =>
       \A r \in find(call.key) : r.kind = "reference" /\ r.pointee = call.val

\* C6: emplace is insert-or-overwrite, last writer wins.
C6_LastWriterWins == []C6_OneBinding /\ [][C6_EmplaceStep]_vars

\* C6's case: a bound name was bound again to another value.
C6_Witness ==
  /\ call.op = "emplace"
  /\ ~call.ret.inserted
  /\ \E r \in find(call.key) : r.kind = "reference" /\ r.pointee = call.val
  /\ \E n \in Keys : n # call.key /\ Bound(n)

\* C7: findTypeVar of an index that was never allocated fails with an
\* out-of-range error.
C7_OutOfRange ==
  (call.op = "findTypeVar" /\ (call.tindex < 0 \/ call.tindex >= Len(heap))) =>
    (call.ret.kind = "throw" /\ call.ret.type = "std::out_of_range")


(***************************************************************************)
(* Properties of the chain.                                                *)
(***************************************************************************)
\* The nodes reached from the nodes of S in at most n steps along one field.
RECURSIVE Reach(_, _, _)
Reach(IS_PREV, S, n) ==
  IF n = 0 THEN S
  ELSE Reach(IS_PREV, S \cup UNION {LinkOf(IS_PREV, heap[a]) : a \in S}, n - 1)

\* Following one field leads from some node back to it.
Cyclic(IS_PREV) ==
  \E a \in Handles : a \in Reach(IS_PREV, LinkOf(IS_PREV, heap[a]), Len(heap))

\* The links form no cycle.
Acyclic == ~Cyclic(TRUE) /\ ~Cyclic(FALSE)

\* Every link is recorded at both of its ends: a.next = b iff b.prev = a.
Symmetric ==
  \A a, b \in Handles : (heap[a].next = {b}) <=> (heap[b].prev = {a})

\* The nodes joined to the nodes of S by links, followed either way, in at
\* most n steps.
RECURSIVE Joined(_, _)
Joined(S, n) ==
  IF n = 0 THEN S
  ELSE Joined(S \cup UNION {heap[a].prev \cup heap[a].next : a \in S}
                \cup {b \in Handles : (heap[b].prev \cup heap[b].next) \cap S # {}},
              n - 1)

\* The chain a is a member of.
ChainOf(a) == Joined({a}, Len(heap))

\* The nodes a walk from b can end in: those on b's path that have no
\* further link in the walk's direction.
Ends(IS_PREV, b) ==
  {e \in Reach(IS_PREV, {b}, Len(heap)) : ~has_value(LinkOf(IS_PREV, heap[e]))}

\* call holds what getLink<IS_PREV> returned.
Returned(IS_PREV) ==
  /\ call.op = GetLinkName(IS_PREV)
  /\ call.ret.kind = "shared_ptr"

\* C3, the state: the node getFirstLink returned has no prev link, the node
\* getLastLink returned has no next link.
C3_Terminal ==
  /\ Returned(TRUE) => ~has_value(heap[call.ret.addr].prev)
  /\ Returned(FALSE) => ~has_value(heap[call.ret.addr].next)

\* C3, the behaviour: a walk started on links without a cycle returns.
C3_Returns ==
  \A IS_PREV \in BOOLEAN, h \in 1 .. MaxTypeVars :
    (walk.pc = "while" /\ walk.IS_PREV = IS_PREV /\ call.self = h /\ Acyclic)
      ~> (walk = NoWalk /\ Returned(IS_PREV) /\ call.self = h)

\* C3: on links that form no cycle getFirstLink and getLastLink terminate,
\* and what they return has no prev, respectively no next, link.
C3_Termination == []C3_Terminal /\ C3_Returns

\* C3's case: a walk along a link returned the other end of the chain.
C3_Witness ==
  /\ Returned(TRUE)
  /\ Acyclic
  /\ heap[call.self].prev = {call.ret.addr}
  /\ call.ret.addr # call.self


\* The walk that returned ended where every member of the chain it began in
\* ends.
SameEnds(IS_PREV) ==
  \A b \in ChainOf(call.self) : Ends(IS_PREV, b) = {call.ret.addr}

\* C4 as stated: on any links without a cycle, the end returned is the end
\* of every member of the chain.
C4_SameEndsAnyLinks ==
  \A IS_PREV \in BOOLEAN : (Returned(IS_PREV) /\ Acyclic) => SameEnds(IS_PREV)

\* C4, amended: on links without a cycle the walk returns the one end of the
\* path it began on, and when moreover every link is recorded at both of its
\* ends (a.next = b iff b.prev = a), that is the end of every member of the
\* chain: getFirstLink and getLastLink do not depend on where they start.
C4_SameEndsSymmetric ==
  \A IS_PREV \in BOOLEAN :
    (Returned(IS_PREV) /\ Acyclic) =>
      /\ Ends(IS_PREV, call.self) = {call.ret.addr}
      /\ Symmetric => SameEnds(IS_PREV)

\* C4's case: on a doubly linked chain of two, the walk from one member
\* returned the other, which is its own end too.
C4_Witness ==
  /\ Returned(FALSE)
  /\ Acyclic
  /\ Symmetric
  /\ call.ret.addr # call.self
  /\ call.ret.addr \in ChainOf(call.self)
  /\ Ends(FALSE, call.ret.addr) = {call.ret.addr}

\* C2: what findTypeVar(h.index) yields shows the contained value and the
\* links h has now.
C2_StoreSeesHandle ==
  call.op = "findTypeVar" =>
    \A h \in Handles :
      (heap[h].index = call.tindex /\ call.ret.kind = "reference") =>
        /\ call.ret.pointee.contained = heap[h].contained
        /\ call.ret.pointee.prev = heap[h].prev
        /\ call.ret.pointee.next = heap[h].next


(***************************************************************************)
(* TypeEnv::replaceTypeVars, the substitution pass.  It walks all bindings *)
(* and all stored variables and replaces every TypeVar occurrence by the   *)
(* value its chain resolves to, where it resolves; the chain decides, not  *)
(* the occurrence's own contained guess.                                   *)
(***************************************************************************)
\* The variable an occurrence with index i stands for.
VarOf(i) == {h \in Handles : heap[h].index = i}

\* The value the chain of the variable with index i resolves to: what the
\* last link of its chain contains; None when the variable is unknown or
\* nothing was found out about its chain yet.
Resolved(i) ==
  IF VarOf(i) = {} THEN None
  ELSE LET ends == UNION {Ends(FALSE, h) : h \in VarOf(i)}
       IN  IF ends = {} THEN None ELSE heap[CHOOSE e \in ends : TRUE].contained

\* The substitution as it would be if it did not go on into the value it
\* puts in an occurrence's place.
RECURSIVE SubstituteOnce(_, _)
SubstituteOnce(v, n) ==
  CASE v.tag = "TypeVar" -> IF Resolved(v.index) = None THEN v ELSE Resolved(v.index)
    [] v.tag \in {"Ref", "Pointer"} -> [v EXCEPT !.val = SubstituteOnce(v.val, n)]
    [] v.tag = "Tuple" ->
         [v EXCEPT !.arg_types =
            [i \in DOMAIN v.arg_types |-> SubstituteOnce(v.arg_types[i], n)]]
    [] OTHER -> v

\* v with every TypeVar occurrence that resolves replaced by what it resolves
\* to, to nesting depth n of variables inside resolved values.
RECURSIVE Substitute(_, _)
Substitute(v, n) ==
  CASE v.tag = "TypeVar" ->
         IF Resolved(v.index) = None \/ n = 0 THEN v
         ELSE Substitute(Resolved(v.index), n - 1)
    [] v.tag \in {"Ref", "Pointer"} -> [v EXCEPT !.val = Substitute(v.val, n)]
    [] v.tag = "Function" ->
         [v EXCEPT !.ret_type = Substitute(v.ret_type, n),
                   !.arg_types =
                     [i \in DOMAIN v.arg_types |-> Substitute(v.arg_types[i], n)]]
    [] v.tag = "Closure" ->
         [v EXCEPT !.fun = Substitute(v.fun, n),
                   !.captures = Substitute(v.captures, n)]
    [] v.tag = "Array" -> [v EXCEPT !.elem_type = Substitute(v.elem_type, n)]
    [] v.tag = "Tuple" ->
         [v EXCEPT !.arg_types =
            [i \in DOMAIN v.arg_types |-> Substitute(v.arg_types[i], n)]]
    [] v.tag = "Struct" ->
         [v EXCEPT !.arg_types =
            [i \in DOMAIN v.arg_types |->
               [v.arg_types[i] EXCEPT !.val = Substitute(v.arg_types[i].val, n)]]]
    [] v.tag = "Alias" -> [v EXCEPT !.target = Substitute(v.target, n)]
    [] OTHER -> v

\* The indices of the TypeVar occurrences of v.
RECURSIVE Occurrences(_)
Occurrences(v) ==
  CASE v.tag = "TypeVar" -> {v.index}
    [] v.tag \in {"Ref", "Pointer"} -> Occurrences(v.val)
    [] v.tag = "Function" ->
         Occurrences(v.ret_type)
           \cup UNION {Occurrences(v.arg_types[i]) : i \in DOMAIN v.arg_types}
    [] v.tag = "Closure" -> Occurrences(v.fun) \cup Occurrences(v.captures)
    [] v.tag = "Array" -> Occurrences(v.elem_type)
    [] v.tag = "Tuple" -> UNION {Occurrences(v.arg_types[i]) : i \in DOMAIN v.arg_types}
    [] v.tag = "Struct" ->
         UNION {Occurrences(v.arg_types[i].val) : i \in DOMAIN v.arg_types}
    [] v.tag = "Alias" -> Occurrences(v.target)
    [] OTHER -> {}

\* The variables whose value, once resolved, mentions the variable with
\* index i again, in at most n steps: a type that contains itself.
RECURSIVE Mentions(_, _)
Mentions(S, n) ==
  IF n = 0 THEN S
  ELSE Mentions(S \cup UNION {Occurrences(Resolved(i)) : i \in S}, n - 1)

\* No variable resolves to a value that contains it (the unification pass
\* checks this before it binds a variable).
OccursFree ==
  \A h \in Handles :
    heap[h].index \notin Mentions(Occurrences(Resolved(heap[h].index)), Len(heap))

\* void replaceTypeVars()
ReplaceTypeVars ==
  /\ walk = NoWalk
  /\ ~Cyclic(FALSE)
  /\ OccursFree
  /\ env' = {[key |-> e.key, val |-> Substitute(e.val, Len(heap))] : e \in env}
  /\ tv_container' =
       [i \in DOMAIN tv_container |-> Substitute(tv_container[i], Len(heap))]
  /\ call' = [op |-> "replaceTypeVars"]
  /\ UNCHANGED <<typeid_count, heap, walk, input, output>>

\* What the unification pass binds variables to, and the types it records
\* for names: the variable created last, as boxed at its creation, and the
\* first variable inside another type.
Guesses == {Float, Ref(Rec_Wrap(TypeVar(0)))}

InferredTypes ==
  {Rec_Wrap(TypeVar(typeid_count - 1)), Tuple(<<Rec_Wrap(TypeVar(0)), Float>>)}

NextSubst ==
  \/ CreateNewTypeVar
  \/ \E h \in Handles, v \in Guesses : AssignContained(h, v)
  \/ \E h \in Handles : \E o \in Links \ {{h}} : AssignNext(h, o)
  \/ \E typevar \in InferredTypes : Emplace("x", typevar)
  \/ ReplaceTypeVars

SpecSubst == Init /\ [][NextSubst]_vars

\* C8, the state: right after the pass, a second pass would change neither
\* a binding nor a stored value, and no occurrence that resolves is left.
C8_PassIsFixpoint ==
  call.op = "replaceTypeVars" =>
    /\ \A e \in env : Substitute(e.val, Len(heap)) = e.val
    /\ \A i \in DOMAIN tv_container :
         Substitute(tv_container[i], Len(heap)) = tv_container[i]
    /\ \A e \in env : \A i \in Occurrences(e.val) : Resolved(i) = None
    /\ \A k \in DOMAIN tv_container :
         \A i \in Occurrences(tv_container[k]) : Resolved(i) = None

\* C8, the step: the pass keeps every key and the length of the store, and
\* leaves alone the bindings and stored values none of whose occurrences
\* resolves.
C8_PassStep ==
  call'.op = "replaceTypeVars" =>
    /\ {e.key : e \in env'} = {e.key : e \in env}
    /\ Len(tv_container') >= Len(tv_container)
    /\ \A e \in env :
         (\A i \in Occurrences(e.val) : Resolved(i) = None) => e \in env'
    /\ \A k \in DOMAIN tv_container :
         (\A i \in Occurrences(tv_container[k]) : Resolved(i) = None)
           => tv_container'[k] = tv_container[k]

====
